---- MODULE Spec2Model ----
(***************************************************************************)
(* Model of playwright-lighthouse-flow's comparison CLI                    *)
(* (bin/compare-flow-results.ts): the delta computation of main(), the     *)
(* step-page and index-page renderers, and the driver that reads two flow  *)
(* result documents and writes the pages; and of src/lighthouse-helper.ts: *)
(* connectToLighthouseFlow, assertLighthouseFlowResultThresholds and the   *)
(* fixtures of createLighthouseTest.                                       *)
(*                                                                         *)
(* Modelling conventions                                                   *)
(*  - A JSON scalar is a tagged record: Num(n), Null, Undef (the value a   *)
(*    property read yields when the key is absent) or NaN.                 *)
(*  - A JSON object is a function whose DOMAIN is its key set; an absent   *)
(*    key is a key outside the DOMAIN.  Keys are iterated in KeyOrder.     *)
(*  - A score (0..1 in the documents) is held in hundredths, so the        *)
(*    perfect score 1 is ScoreOne = 100; (score * 100).toFixed(0) is then  *)
(*    the integer itself.  The CLI's arithmetic is exact; the helper's     *)
(*    score * 100, which is compared and not formatted, keeps the rounding *)
(*    step of the double product (Times100).                               *)
(*  - A raw numeric value is held in tenths of its unit (Tenths).          *)
(*  - A string produced by Number.prototype.toFixed is a sequence of       *)
(*    one-character strings, so that it can be built and parsed.           *)
(*  - An HTML fragment is a sequence of structured elements; the empty     *)
(*    string '' is << >> and join('') is concatenation.                    *)
(***************************************************************************)
EXTENDS Integers, Sequences, FiniteSets, TLC

VARIABLES
    pc,            \* position of main(): start, loop, index, open, confirm, done, exited
    argv,          \* the positional CLI arguments (process.argv from index 2)
    disk,          \* content of the two input files, by path
    dirs,          \* directories that exist under the working directory
    now,           \* the value Date.now() returns
    beforeSteps,   \* main's local beforeSteps
    afterSteps,    \* main's local afterSteps
    steps,         \* main's local steps: the rows of the index page
    i,             \* the loop counter of main (0-based)
    auditDiffs,    \* auditDiffs of the iteration that ran last
    categoryDiffs, \* categoryDiffs of the iteration that ran last
    outDir,        \* the output directory of this run, "" until created
    files,         \* files written: name -> page model
    exitCode,      \* process exit code, -1 while running
    stderr,        \* messages on the error stream
    stdout,        \* messages on the output stream
    cmpArgs,       \* arguments of a direct compareNumbers call
    cmpResult,     \* its result
    hpc,           \* position of the helper that runs: idle, connect, connected,
                   \* failed, step, category, returned
    flowOptions,   \* the argument of connectToLighthouseFlow
    pages,         \* the URLs of the pages of the browser, in pBrowser.pages() order
    flow,          \* what connectToLighthouseFlow started the flow with
    flowResult,    \* the first argument of assertLighthouseFlowResultThresholds
    thresholds,    \* Object.entries of its second argument
    stepIdx,       \* steps of flowResult the outer loop has finished
    catIdx,        \* entries of thresholds the inner loop has finished
    log,           \* console output of the helper
    softAsserts,   \* the expect.soft assertions made, each with its outcome
    wpc,           \* position of a test worker: idle, port, launch, login, body,
                   \* running, close, done
    workerPort,    \* the value of the worker's port fixture, 0 until it is set up
    tests,         \* the tests the worker runs, in order: the fixture each uses
    testIdx,       \* tests the worker has finished
    contexts,      \* the browser contexts that are open, each with its port
    events         \* what happened in the worker, in order

helperVars == <<hpc, flowOptions, pages, flow, flowResult, thresholds, stepIdx,
                catIdx, log, softAsserts>>

fixtureVars == <<wpc, workerPort, tests, testIdx, contexts, events>>

vars == <<pc, argv, disk, dirs, now, beforeSteps, afterSteps, steps, i,
          auditDiffs, categoryDiffs, outDir, files, exitCode, stderr, stdout,
          cmpArgs, cmpResult, helperVars, fixtureVars>>

mainVars == <<pc, argv, disk, dirs, now, beforeSteps, afterSteps, steps, i,
              auditDiffs, categoryDiffs, outDir, files, exitCode, stderr, stdout>>

-----------------------------------------------------------------------------
(* JSON values *)

Undef == [t |-> "undefined"]
Null == [t |-> "null"]
NaN == [t |-> "NaN"]
Num(n) == [t |-> "number", v |-> n]

IsNum(x) == x.t = "number"

\* obj[key] in JavaScript: undefined when the key is absent
Get(obj, key) == IF key \in DOMAIN obj THEN obj[key] ELSE Undef

\* ToNumber: undefined -> NaN, null -> 0
ToNumber(x) ==
    IF IsNum(x) THEN x
    ELSE IF x = Null THEN Num(0)
    ELSE NaN

\* a - b on JavaScript numbers
Minus(a, b) ==
    LET x == ToNumber(a)
        y == ToNumber(b)
    IN  IF IsNum(x) /\ IsNum(y) THEN Num(x.v - y.v) ELSE NaN

\* typeof x === 'number'
TypeofNumber(x) == x.t \in {"number", "NaN"}

Abs(n) == IF n < 0 THEN -n ELSE n

Min(a, b) == IF a < b THEN a ELSE b

-----------------------------------------------------------------------------
(* Number.prototype.toFixed(1) *)

Digits == <<"0", "1", "2", "3", "4", "5", "6", "7", "8", "9">>

RECURSIVE NatToChars(_)
NatToChars(n) ==
    IF n < 10 THEN <<Digits[n + 1]>>
    ELSE NatToChars(n \div 10) \o <<Digits[(n % 10) + 1]>>

\* (num / den).toFixed(1) for den # 0: the nearest tenth of the magnitude
\* (the larger n on a tie), with "-" in front when the value is below zero.
\* On an exact decimal tie the double's binary error decides in the program;
\* the properties below accept either neighbour.
ToFixed1(num, den) ==
    LET neg == (num < 0 /\ den > 0) \/ (num > 0 /\ den < 0)
        n == (2 * 10 * Abs(num) + Abs(den)) \div (2 * Abs(den))
    IN  (IF neg THEN <<"-">> ELSE << >>)
            \o NatToChars(n \div 10) \o <<".">> \o NatToChars(n % 10)

-----------------------------------------------------------------------------
(* compareNumbers *)

\* variant: the polarity of the two modes exchanged
compareNumbers_flipped(before, after, isScore) ==
    LET diff == Minus(after, before)
        percent ==
            IF before # Num(0)
            THEN IF IsNum(diff) /\ IsNum(before)
                 THEN ToFixed1(diff.v * 100, before.v)
                 ELSE <<"N", "a", "N">>
            ELSE <<"0">>
        trend ==
            IF diff = Num(0) THEN "equal"
            ELSE IF IsNum(diff) /\ (IF isScore THEN diff.v < 0 ELSE diff.v > 0)
                 THEN "better"
                 ELSE "worse"
    IN  [before |-> before, after |-> after, diff |-> diff,
         percent |-> percent, trend |-> trend]

\* variant: no guard against before = 0 (the division gives NaN or Infinity)
compareNumbers_noZeroGuard(before, after, isScore) ==
    LET diff == Minus(after, before)
        percent ==
            IF IsNum(diff) /\ IsNum(before)
            THEN IF before.v # 0 THEN ToFixed1(diff.v * 100, before.v)
                 ELSE IF diff.v = 0 THEN <<"N", "a", "N">>
                 ELSE IF diff.v > 0
                      THEN <<"I", "n", "f", "i", "n", "i", "t", "y">>
                      ELSE <<"-", "I", "n", "f", "i", "n", "i", "t", "y">>
            ELSE <<"N", "a", "N">>
        trend ==
            IF diff = Num(0) THEN "equal"
            ELSE IF IsNum(diff) /\ (IF isScore THEN diff.v > 0 ELSE diff.v < 0)
                 THEN "better"
                 ELSE "worse"
    IN  [before |-> before, after |-> after, diff |-> diff,
         percent |-> percent, trend |-> trend]

\* lines 76-84
compareNumbers(before, after, isScore) ==
    LET diff == Minus(after, before)
        percent ==
            IF before # Num(0)
            THEN IF IsNum(diff) /\ IsNum(before)
                 THEN ToFixed1(diff.v * 100, before.v)
                 ELSE <<"N", "a", "N">>
            ELSE <<"0">>
        trend ==
            IF diff = Num(0) THEN "equal"
            ELSE IF IsNum(diff) /\ (IF isScore THEN diff.v > 0 ELSE diff.v < 0)
                 THEN "better"
                 ELSE "worse"
    IN  [before |-> before, after |-> after, diff |-> diff,
         percent |-> percent, trend |-> trend]

-----------------------------------------------------------------------------
(* Objects and iteration order *)

\* Object.keys / Object.values / Object.entries visit the keys in insertion
\* order; the documents list their keys in this order.
KeyOrder == <<"performance", "seo", "lcp", "https", "metrics", "Other", "hidden">>

RECURSIVE KeysFrom(_, _)
KeysFrom(obj, k) ==
    IF k > Len(KeyOrder) THEN << >>
    ELSE (IF KeyOrder[k] \in DOMAIN obj THEN <<KeyOrder[k]>> ELSE << >>)
            \o KeysFrom(obj, k + 1)

\* Object.keys(obj)
Keys(obj) == KeysFrom(obj, 1)

\* array.map(f).join(''): the concatenation of the fragments
RECURSIVE Join(_)
Join(frags) == IF frags = << >> THEN << >> ELSE Head(frags) \o Join(Tail(frags))

Range(seq) == {seq[k] : k \in 1..Len(seq)}

\* x ?? null
OrNull(x) == IF x = Undef THEN Null ELSE x

\* x != null (loose): neither null nor undefined
NotNullish(x) == x # Null /\ x # Undef

-----------------------------------------------------------------------------
(* Delta computation of one loop iteration (main, lines 503-531) *)

\* obj.audits[id]?.score ?? null, for a snapshot that has the mapping
ScoreOrNull(mapping, id) ==
    IF id \in DOMAIN mapping THEN OrNull(Get(mapping[id], "score")) ELSE Null

\* the condition of line 510 and of line 183
BothNumeric(beforeAudit, afterAudit) ==
    /\ TypeofNumber(Get(beforeAudit, "numericValue"))
    /\ TypeofNumber(Get(afterAudit, "numericValue"))

\* lines 511-516
NumericDelta(numB, numA) ==
    LET diffNum == Minus(numA, numB)
        percentNum ==
            IF numB # Num(0) THEN ToFixed1(diffNum.v * 100, numB.v) ELSE <<"0">>
        trendNum ==
            IF diffNum = Num(0) THEN "equal"
            ELSE IF diffNum.v < 0 THEN "better" ELSE "worse"
    IN  [before |-> numB, after |-> numA, diff |-> diffNum,
         percent |-> percentNum, trend |-> trendNum]

\* line 509: compareNumbers(before, after) leaves isScore at its default, false
AuditDelta(id, beforeLhr, afterLhr) ==
    LET before == ScoreOrNull(beforeLhr.audits, id)
        after == ScoreOrNull(afterLhr.audits, id)
        base == compareNumbers(before, after, FALSE) @@ [id |-> id]
    IN  IF BothNumeric(beforeLhr.audits[id], afterLhr.audits[id])
        THEN base @@ [numeric |-> NumericDelta(beforeLhr.audits[id].numericValue,
                                               afterLhr.audits[id].numericValue)]
        ELSE base

\* line 508
HasAuditDelta(id, beforeLhr, afterLhr) ==
    /\ NotNullish(ScoreOrNull(beforeLhr.audits, id))
    /\ NotNullish(ScoreOrNull(afterLhr.audits, id))

\* lines 503-519 raise a TypeError when after has no audits mapping
\* (Object.keys(undefined)) or when before has none and after has a key
\* (beforeLhr.audits[id] reads a property of undefined).
AuditDiffsThrow(beforeLhr, afterLhr) ==
    \/ "audits" \notin DOMAIN afterLhr
    \/ "audits" \notin DOMAIN beforeLhr /\ DOMAIN afterLhr.audits # {}

computeAuditDiffs(beforeLhr, afterLhr) ==
    [id \in {k \in DOMAIN afterLhr.audits : HasAuditDelta(k, beforeLhr, afterLhr)}
        |-> AuditDelta(id, beforeLhr, afterLhr)]

\* line 525: strict comparisons with null; an absent after score is undefined
HasCategoryDelta(catId, beforeLhr, afterLhr) ==
    /\ ScoreOrNull(beforeLhr.categories, catId) # Null
    /\ Get(afterLhr.categories[catId], "score") # Null

\* lines 526-529
CategoryDelta(catId, beforeLhr, afterLhr) ==
    LET cat == afterLhr.categories[catId]
    IN  compareNumbers(ScoreOrNull(beforeLhr.categories, catId),
                       Get(cat, "score"), TRUE)
            @@ [title |-> cat.title]

CategoryDiffsThrow(beforeLhr, afterLhr) ==
    \/ "categories" \notin DOMAIN afterLhr
    \/ "categories" \notin DOMAIN beforeLhr /\ DOMAIN afterLhr.categories # {}

computeCategoryDiffs(beforeLhr, afterLhr) ==
    [catId \in {k \in DOMAIN afterLhr.categories :
                    HasCategoryDelta(k, beforeLhr, afterLhr)}
        |-> CategoryDelta(catId, beforeLhr, afterLhr)]

-----------------------------------------------------------------------------
(* Presentation helpers *)

\* the score 1 of the documents, in hundredths
ScoreOne == 100

scoreColor(score) ==
    IF score = Null \/ score = Undef THEN "#b0b0b0"
    ELSE IF IsNum(score) /\ score.v >= 90 THEN "#0cce6b"
    ELSE IF IsNum(score) /\ score.v >= 50 THEN "#ffa400"
    ELSE "#ff4e42"

trendIcon(trend) ==
    IF trend = "better" THEN "up"
    ELSE IF trend = "worse" THEN "down"
    ELSE "circle"

trendColor(trend) ==
    IF trend = "better" THEN "#0cce6b"
    ELSE IF trend = "worse" THEN "#ff4e42"
    ELSE "#b0b0b0"

trendBg(trend) ==
    IF trend = "better" THEN "#e8f5e9"
    ELSE IF trend = "worse" THEN "#ffebee"
    ELSE "#f1f3f4"

\* (score * 100).toFixed(0): the hundredths themselves; null counts as 0 and
\* undefined gives NaN
Percent0(score) == ToNumber(score)

\* ref.group || 'Other'
RefGroup(ref) == IF "group" \in DOMAIN ref THEN ref.group ELSE "Other"

\* groupAuditRefsByGroup: the groups in order of first appearance, each with
\* its refs in order
RECURSIVE GroupOrder(_)
GroupOrder(auditRefs) ==
    IF auditRefs = << >> THEN << >>
    ELSE LET front == GroupOrder(SubSeq(auditRefs, 1, Len(auditRefs) - 1))
             g == RefGroup(auditRefs[Len(auditRefs)])
         IN  IF g \in Range(front) THEN front ELSE Append(front, g)

groupAuditRefsByGroup(auditRefs) ==
    LET order == GroupOrder(auditRefs)
    IN  [k \in 1..Len(order) |->
            LET InGroup(ref) == RefGroup(ref) = order[k]
            IN  [groupId |-> order[k], refs |-> SelectSeq(auditRefs, InGroup)]]

\* groupId.toLowerCase() for the group identifiers of the documents
ToLowerCase(groupId) == IF groupId = "Hidden" THEN "hidden" ELSE groupId

getFriendlyGroupName(groupId, lhr) ==
    IF "categoryGroups" \in DOMAIN lhr /\ groupId \in DOMAIN lhr.categoryGroups
    THEN LET title == lhr.categoryGroups[groupId].title
         IN  IF ToLowerCase(groupId) = "hidden" /\ title = "" THEN "Insights"
             ELSE IF title # "" THEN title ELSE groupId
    ELSE IF ToLowerCase(groupId) = "hidden" THEN "Insights"
    ELSE IF groupId = "metrics" THEN "Metrics"
    ELSE IF groupId = "diagnostics" THEN "Diagnostics"
    ELSE groupId

-----------------------------------------------------------------------------
(* Step page *)

renderCategoryHeader(categories, categoryDiffs_) ==
    [k \in 1..Len(categories) |->
        LET cat == categories[k]
        IN  [catId |-> cat.id,
             title |-> cat.title,
             color |-> scoreColor(Get(cat, "score")),
             score |-> Percent0(Get(cat, "score")),
             diff |-> IF cat.id \in DOMAIN categoryDiffs_
                      THEN <<[icon |-> trendIcon(categoryDiffs_[cat.id].trend),
                              percent |-> categoryDiffs_[cat.id].percent]>>
                      ELSE << >>]]

\* A raw numeric value (numericValue, a fractional number of units) is held
\* in tenths of its unit: whole units and one decimal.
Tenths(whole, decimal) == 10 * whole + decimal

\* variant: the difference is cut to its integer part
MathRound_trunc(tenths) ==
    IF tenths >= 0 THEN tenths \div 10 ELSE -((-tenths) \div 10)

\* Math.round of a value held in tenths: the nearest integer, a tie going up
MathRound(tenths) == (2 * tenths + 10) \div 20

\* beforeDisplay / afterDisplay of renderDiffAudit
DisplayOf(audit) ==
    IF "displayValue" \in DOMAIN audit /\ audit.displayValue # ""
    THEN <<audit.displayValue>>
    ELSE IF TypeofNumber(Get(audit, "numericValue"))
         THEN ToFixed1(audit.numericValue.v, Tenths(1000, 0)) \o <<" ", "s">>
         ELSE << >>

\* the unit of line 184
UnitOf(afterAudit) ==
    IF "numericUnit" \notin DOMAIN afterAudit THEN ""
    ELSE IF afterAudit.numericUnit = "millisecond" THEN "ms"
    ELSE afterAudit.numericUnit

\* hasDiff tells whether auditDiffs has an entry for the audit (diff is the
\* entry then).  The result is '' (<< >>) or one list item.
renderDiffAudit(ref, beforeAudit, afterAudit, hasDiff, diff) ==
    IF Get(afterAudit, "score") = Null \/ Get(afterAudit, "score") = Num(ScoreOne)
    THEN << >>
    ELSE
        LET numeric == BothNumeric(beforeAudit, afterAudit)
            rawDiff == Minus(afterAudit.numericValue, beforeAudit.numericValue)
            trend ==
                IF numeric
                THEN compareNumbers(beforeAudit.numericValue,
                                    afterAudit.numericValue, FALSE).trend
                ELSE IF hasDiff THEN diff.trend ELSE "equal"
            diffValue ==
                IF numeric
                THEN [kind |-> "number",
                      sign |-> IF rawDiff.v > 0 THEN "+" ELSE "",
                      value |-> MathRound(rawDiff.v),
                      unit |-> UnitOf(afterAudit),
                      color |-> trendColor(trend)]
                ELSE IF hasDiff
                THEN [kind |-> "percent",
                      text |-> IF diff.trend = "equal" THEN << >>
                               ELSE diff.percent \o <<"%">>,
                      color |-> trendColor(trend)]
                ELSE [kind |-> "none"]
        IN  <<[id |-> ref.id,
               title |-> afterAudit.title,
               bg |-> trendBg(trend),
               icon |-> trendIcon(trend),
               beforeDisplay |-> DisplayOf(beforeAudit),
               afterDisplay |-> DisplayOf(afterAudit),
               diffValue |-> diffValue,
               scoreColor |-> scoreColor(Get(afterAudit, "score")),
               score |-> Percent0(Get(afterAudit, "score"))]>>

\* variant: score <= 1 in place of score < 1
IsFailedRef_inclusive(ref, lhrAfter) ==
    /\ ref.id \in DOMAIN lhrAfter.audits
    /\ LET score == Get(lhrAfter.audits[ref.id], "score")
       IN  IsNum(score) /\ score.v <= ScoreOne

\* afterAudit && afterAudit.score !== null && afterAudit.score < 1
IsFailedRef(ref, lhrAfter) ==
    /\ ref.id \in DOMAIN lhrAfter.audits
    /\ LET score == Get(lhrAfter.audits[ref.id], "score")
       IN  IsNum(score) /\ score.v < ScoreOne

\* lines 239-247: the items of one group
renderAuditItems(failedRefs, lhrBefore, lhrAfter, auditDiffs_) ==
    Join([k \in 1..Len(failedRefs) |->
            LET id == failedRefs[k].id
            IN  IF id \notin DOMAIN lhrBefore.audits \/ id \notin DOMAIN lhrAfter.audits
                THEN << >>
                ELSE renderDiffAudit(failedRefs[k], lhrBefore.audits[id],
                                     lhrAfter.audits[id],
                                     id \in DOMAIN auditDiffs_,
                                     IF id \in DOMAIN auditDiffs_
                                     THEN auditDiffs_[id] ELSE Undef)])

\* variant: every known ref of the group becomes an item, without the score
\* filters of lines 222-225 and 173
renderGroup_unfiltered(group, lhrBefore, lhrAfter, auditDiffs_) ==
    LET Known(ref) == ref.id \in DOMAIN lhrAfter.audits
        refs == SelectSeq(group.refs, Known)
    IN  IF refs = << >> THEN << >>
        ELSE <<[groupId |-> group.groupId,
                name |-> getFriendlyGroupName(group.groupId, lhrAfter),
                count |-> Len(refs),
                items |-> [k \in 1..Len(refs) |->
                            [id |-> refs[k].id,
                             title |-> lhrAfter.audits[refs[k].id].title,
                             score |-> Percent0(Get(lhrAfter.audits[refs[k].id],
                                                    "score"))]]]>>

\* lines 220-258: one group of a category
renderGroup(group, lhrBefore, lhrAfter, auditDiffs_) ==
    LET Failed(ref) == IsFailedRef(ref, lhrAfter)
        failedRefs == SelectSeq(group.refs, Failed)
    IN  IF failedRefs = << >> THEN << >>
        ELSE <<[groupId |-> group.groupId,
                name |-> getFriendlyGroupName(group.groupId, lhrAfter),
                count |-> Len(failedRefs),
                items |-> renderAuditItems(failedRefs, lhrBefore, lhrAfter,
                                           auditDiffs_)]>>

renderCategory(category, lhrBefore, lhrAfter, auditDiffs_, categoryDiffs_) ==
    LET groups == groupAuditRefsByGroup(category.auditRefs)
        groupHtml == Join([k \in 1..Len(groups) |->
                            renderGroup(groups[k], lhrBefore, lhrAfter, auditDiffs_)])
    IN  IF groupHtml = << >> THEN << >>
        ELSE <<[catId |-> category.id,
                title |-> category.title,
                color |-> scoreColor(Get(category, "score")),
                score |-> Percent0(Get(category, "score")),
                diff |-> IF category.id \in DOMAIN categoryDiffs_
                         THEN <<[icon |-> trendIcon(categoryDiffs_[category.id].trend),
                                 percent |-> categoryDiffs_[category.id].percent]>>
                         ELSE << >>,
                groups |-> groupHtml]>>

\* lines 288-296
HasProblems(cat, lhrAfter) ==
    LET groups == groupAuditRefsByGroup(cat.auditRefs)
    IN  \E k \in 1..Len(groups) :
            \E r \in 1..Len(groups[k].refs) : IsFailedRef(groups[k].refs[r], lhrAfter)

generateStepHTML(stepName, lhrBefore, lhrAfter, auditDiffs_, categoryDiffs_) ==
    LET catKeys == Keys(lhrAfter.categories)
        categories == [k \in 1..Len(catKeys) |-> lhrAfter.categories[catKeys[k]]]
        Problem(cat) == HasProblems(cat, lhrAfter)
        catsWithProblems == SelectSeq(categories, Problem)
    IN  [kind |-> "step",
         title |-> stepName,
         summary |-> renderCategoryHeader(categories, categoryDiffs_),
         body |-> Join([k \in 1..Len(catsWithProblems) |->
                          renderCategory(catsWithProblems[k], lhrBefore, lhrAfter,
                                         auditDiffs_, categoryDiffs_)])]

-----------------------------------------------------------------------------
(* Index page *)

\* Array.from(new Set(list)): the elements in order of first appearance
RECURSIVE Unique(_)
Unique(list) ==
    IF list = << >> THEN << >>
    ELSE LET front == Unique(SubSeq(list, 1, Len(list) - 1))
             x == list[Len(list)]
         IN  IF x \in Range(front) THEN front ELSE Append(front, x)

\* "step-<n>.html"
StepFile(n) == "step-" \o ToString(n) \o ".html"

\* line 350: steps[0].categoryDiffs[cat]?.title || cat
HeaderCell(steps_, cat) ==
    IF cat \in DOMAIN steps_[1].categoryDiffs /\ steps_[1].categoryDiffs[cat].title # ""
    THEN steps_[1].categoryDiffs[cat].title
    ELSE cat

\* step.name || fallback
NameOr(step, fallback) ==
    IF "name" \in DOMAIN step /\ step.name # "" THEN step.name ELSE fallback

\* lines 358-378: the cell of one category in the row of steps[k] (i = k - 1)
TimelineCell(step, k, cat) ==
    IF cat \notin DOMAIN step.categoryDiffs THEN [kind |-> "placeholder"]
    ELSE LET val == step.categoryDiffs[cat]
         IN  [kind |-> "delta",
              href |-> StepFile(k - 1),
              border |-> scoreColor(val.after),
              before |-> Percent0(val.before),
              after |-> Percent0(val.after),
              percent |-> val.percent,
              icon |-> trendIcon(val.trend),
              color |-> trendColor(val.trend)]

generateTimelineHTML(steps_) ==
    LET allCategories ==
            Unique(Join([k \in 1..Len(steps_) |-> Keys(steps_[k].categoryDiffs)]))
    IN  [kind |-> "index",
         header |-> [c \in 1..Len(allCategories) |->
                        [catId |-> allCategories[c],
                         text |-> HeaderCell(steps_, allCategories[c])]],
         rows |-> [k \in 1..Len(steps_) |->
                    [href |-> StepFile(k),
                     number |-> k,
                     name |-> NameOr(steps_[k], "Step " \o ToString(k - 1)),
                     cells |-> [c \in 1..Len(allCategories) |->
                                  TimelineCell(steps_[k], k, allCategories[c])]]]]

-----------------------------------------------------------------------------
(* The documents the runs read *)

AuditTitle == [lcp |-> "Largest Contentful Paint", https |-> "Uses HTTPS"]

\* an audit with the given score and numeric value; Undef leaves the key out
AuditRec(id, score, numericValue) ==
    [id |-> id, title |-> AuditTitle[id]]
        @@ (IF score = Undef THEN << >> ELSE [score |-> score])
        @@ (IF numericValue = Undef THEN << >>
            ELSE [numericValue |-> numericValue, numericUnit |-> "millisecond"])

CategoryTitle == [performance |-> "Performance", seo |-> "SEO"]

CategoryRefs ==
    [performance |-> <<[id |-> "lcp", group |-> "metrics"],
                       [id |-> "https", group |-> "metrics"]>>,
     seo |-> <<[id |-> "https"]>>]

CategoryRec(id, score) ==
    [id |-> id, title |-> CategoryTitle[id], auditRefs |-> CategoryRefs[id]]
        @@ (IF score = Undef THEN << >> ELSE [score |-> score])

\* every mapping that gives some of the keys a value of its own set
Mappings(options) ==
    UNION {{m \in [S -> UNION {options[k] : k \in S}] : \A k \in S : m[k] \in options[k]}
           : S \in SUBSET DOMAIN options}

\* a snapshot; a mapping that is not a function (Undef) leaves the key out
Snapshot(audits, categories) ==
    (IF audits = Undef THEN << >> ELSE [audits |-> audits])
        @@ (IF categories = Undef THEN << >> ELSE [categories |-> categories])

Snapshots(auditMaps, categoryMaps) ==
    {Snapshot(a, c) : a \in auditMaps \cup {Undef}, c \in categoryMaps \cup {Undef}}


\* the steps of a flow result: odd steps carry a name, even steps do not
FlowStep(k, snapshot) ==
    IF k % 2 = 1 THEN [name |-> "Landing", lhr |-> snapshot] ELSE [lhr |-> snapshot]

\* { steps: [...] } documents of at most maxSteps steps
FlowDocs(snapshots, maxSteps) ==
    UNION {{[steps |-> [k \in 1..n |-> FlowStep(k, f[k])]] : f \in [1..n -> snapshots]}
           : n \in 0..maxSteps}

\* a single report, wrapped as { lhr: ... } or bare
SingleDocs(snapshots) == {[lhr |-> s] : s \in snapshots} \cup snapshots

\* what reading and parsing an input file can give instead of a document
NoFile == [t |-> "ENOENT"]
BadJson == [t |-> "SyntaxError"]

Readable(content) == "t" \notin DOMAIN content

-----------------------------------------------------------------------------
(* main *)

BaseDir == "lighthouse-reports"

\* path.join(baseDir, `lh-diff-${Date.now()}`)
OutDirAt(time) == BaseDir \o "/lh-diff-" \o ToString(time)

\* lines 489-490: doc.steps || [{ lhr: doc.lhr || doc }]
StepsOf(doc) ==
    IF "steps" \in DOMAIN doc THEN doc.steps
    ELSE <<[lhr |-> IF "lhr" \in DOMAIN doc THEN doc.lhr ELSE doc]>>

\* variant: the handler reports the error and lets the process end normally
Crash_noExit ==
    /\ stderr' = Append(stderr, "error")
    /\ exitCode' = 0
    /\ pc' = "exited"

\* the catch handler of lines 553-556
Crash ==
    /\ stderr' = Append(stderr, "error")
    /\ exitCode' = 1
    /\ pc' = "exited"

\* variant: only the before path is required
ArgsMissing_onlyBefore(args) == Len(args) < 1 \/ args[1] = ""

\* line 481: !beforePath || !afterPath (an absent argument is undefined, and
\* the empty string is falsy as well)
ArgsMissing(args) == Len(args) < 2 \/ args[1] = "" \/ args[2] = ""

\* lines 486-487: JSON.parse(fs.readFileSync(path, 'utf-8')) of the k-th
\* argument; a path that is undefined or names no file makes the read raise
ReadFile(args, k, fs) ==
    IF k > Len(args) THEN NoFile
    ELSE IF args[k] \notin DOMAIN fs THEN NoFile
    ELSE fs[args[k]]

\* variant: the directory is made with { recursive: true }, which accepts a
\* directory that exists
MkdirFails_recursive(dir, existing) == FALSE

\* fs.mkdirSync(dir) of line 498 raises EEXIST when the directory exists
MkdirFails(dir, existing) == dir \in existing

\* lines 480-498: argument check, reading and parsing of the two files,
\* creation of the output directory
Start ==
    /\ pc = "start"
    /\ IF ArgsMissing(argv)
       THEN /\ stderr' = Append(stderr, "usage")
            /\ exitCode' = 1
            /\ pc' = "exited"
            /\ UNCHANGED <<dirs, beforeSteps, afterSteps, outDir>>
       ELSE IF ~Readable(ReadFile(argv, 1, disk)) \/ ~Readable(ReadFile(argv, 2, disk))
       THEN /\ Crash
            /\ UNCHANGED <<dirs, beforeSteps, afterSteps, outDir>>
       ELSE IF MkdirFails(OutDirAt(now), dirs)
       THEN /\ Crash
            /\ dirs' = dirs \cup {BaseDir}
            /\ beforeSteps' = StepsOf(ReadFile(argv, 1, disk))
            /\ afterSteps' = StepsOf(ReadFile(argv, 2, disk))
            /\ UNCHANGED outDir
       ELSE /\ dirs' = dirs \cup {BaseDir, OutDirAt(now)}
            /\ beforeSteps' = StepsOf(ReadFile(argv, 1, disk))
            /\ afterSteps' = StepsOf(ReadFile(argv, 2, disk))
            /\ outDir' = OutDirAt(now)
            /\ pc' = "loop"
            /\ UNCHANGED <<stderr, exitCode>>
    /\ UNCHANGED <<argv, disk, now, steps, i, auditDiffs, categoryDiffs, files,
                   stdout, cmpArgs, cmpResult, helperVars, fixtureVars>>

\* variant: the loop runs over every step of before
LoopBound_before(beforeSteps_, afterSteps_) == Len(beforeSteps_)

\* line 500: Math.min(beforeSteps.length, afterSteps.length)
LoopBound(beforeSteps_, afterSteps_) == Min(Len(beforeSteps_), Len(afterSteps_))

\* lines 500-537: one iteration of the loop over the aligned steps
CompareStep ==
    /\ pc = "loop"
    /\ i < LoopBound(beforeSteps, afterSteps)
    /\ LET beforeLhr == beforeSteps[i + 1].lhr
           afterLhr == afterSteps[i + 1].lhr
           stepPage == i + 1
       IN  IF i + 1 > Len(beforeSteps) \/ i + 1 > Len(afterSteps)
           THEN \* beforeSteps[i] is undefined: reading .lhr raises a TypeError
                /\ Crash
                /\ UNCHANGED <<steps, i, auditDiffs, categoryDiffs, files>>
           ELSE IF AuditDiffsThrow(beforeLhr, afterLhr)
           THEN /\ Crash
                /\ UNCHANGED <<steps, i, auditDiffs, categoryDiffs, files>>
           ELSE IF CategoryDiffsThrow(beforeLhr, afterLhr)
           THEN /\ Crash
                /\ UNCHANGED <<steps, i, auditDiffs, categoryDiffs, files>>
           ELSE /\ auditDiffs' = computeAuditDiffs(beforeLhr, afterLhr)
                /\ categoryDiffs' = computeCategoryDiffs(beforeLhr, afterLhr)
                /\ steps' = Append(steps,
                        [name |-> NameOr(afterSteps[i + 1],
                                         "Step " \o ToString(i + 1)),
                         categoryDiffs |-> categoryDiffs'])
                /\ files' = (StepFile(stepPage) :>
                                generateStepHTML(
                                    <<"Step", stepPage, NameOr(afterSteps[i + 1], "")>>,
                                    beforeLhr, afterLhr, auditDiffs', categoryDiffs'))
                            @@ files
                /\ i' = i + 1
                /\ UNCHANGED <<pc, stderr, exitCode>>
    /\ UNCHANGED <<argv, disk, dirs, now, beforeSteps, afterSteps, outDir, stdout,
                   cmpArgs, cmpResult, helperVars, fixtureVars>>

\* line 539
WriteIndex ==
    /\ pc = "loop"
    /\ i >= LoopBound(beforeSteps, afterSteps)
    /\ files' = ("index.html" :> generateTimelineHTML(steps)) @@ files
    /\ pc' = "open"
    /\ UNCHANGED <<argv, disk, dirs, now, beforeSteps, afterSteps, steps, i,
                   auditDiffs, categoryDiffs, outDir, exitCode, stderr, stdout,
                   cmpArgs, cmpResult, helperVars, fixtureVars>>

\* variant: a failure to start the viewer is not caught
OpenReport_fatal ==
    /\ pc = "open"
    /\ \E opened \in BOOLEAN :
          IF opened
          THEN pc' = "confirm" /\ UNCHANGED <<stderr, exitCode>>
          ELSE Crash
    /\ UNCHANGED <<argv, disk, dirs, now, beforeSteps, afterSteps, steps, i,
                   auditDiffs, categoryDiffs, outDir, files, stdout,
                   cmpArgs, cmpResult, helperVars, fixtureVars>>

\* lines 541-548: the viewer is started; a failure is caught and warned about
OpenReport ==
    /\ pc = "open"
    /\ \E opened \in BOOLEAN :
          stderr' = IF opened THEN stderr ELSE Append(stderr, "warning")
    /\ pc' = "confirm"
    /\ UNCHANGED <<argv, disk, dirs, now, beforeSteps, afterSteps, steps, i,
                   auditDiffs, categoryDiffs, outDir, files, exitCode, stdout,
                   cmpArgs, cmpResult, helperVars, fixtureVars>>

\* line 550, and the process ending with main's promise fulfilled
Confirm ==
    /\ pc = "confirm"
    /\ stdout' = Append(stdout, "Report generated at: " \o outDir \o "/index.html")
    /\ exitCode' = 0
    /\ pc' = "done"
    /\ UNCHANGED <<argv, disk, dirs, now, beforeSteps, afterSteps, steps, i,
                   auditDiffs, categoryDiffs, outDir, files, stderr,
                   cmpArgs, cmpResult, helperVars, fixtureVars>>

\* a direct call of compareNumbers
Compare ==
    /\ pc = "idle"
    /\ cmpResult = Undef
    /\ cmpResult' = compareNumbers(cmpArgs.before, cmpArgs.after, cmpArgs.isScore)
    /\ UNCHANGED <<mainVars, cmpArgs, helperVars, fixtureVars>>

Next == Start \/ CompareStep \/ WriteIndex \/ OpenReport \/ Confirm

NextCompare == Compare

-----------------------------------------------------------------------------
(* connectToLighthouseFlow (src/lighthouse-helper.ts) *)

\* `http://localhost:${port}`
BrowserURL(port) == "http://localhost:" \o ToString(port)

\* page.url().includes(route); a URL is the sequence of its path segments
\* and a route is one segment, or '' which every string includes
Includes(url, route) == route = "" \/ \E k \in 1..Len(url) : url[k] = route

\* the index of the page allPages.find((page) => page.url().includes(route))
\* yields, 0 when it yields undefined
RECURSIVE Find(_, _, _)
Find(allPages, route, k) ==
    IF k > Len(allPages) THEN 0
    ELSE IF Includes(allPages[k], route) THEN k
    ELSE Find(allPages, route, k + 1)

\* allPages.find(...) || allPages[0]
PickPage(allPages, route) ==
    IF Find(allPages, route, 1) # 0 THEN allPages[Find(allPages, route, 1)]
    ELSE allPages[1]

\* the whole function: puppeteer.connect either resolves, and the flow is
\* started on the picked page, or rejects, and so does the function
connectToLighthouseFlow ==
    /\ hpc = "connect"
    /\ \E reachable \in BOOLEAN :
          IF reachable
          THEN /\ flow' = [browserURL |-> BrowserURL(flowOptions.port),
                           page |-> PickPage(pages, flowOptions.route),
                           name |-> flowOptions.flowName]
               /\ hpc' = "connected"
          ELSE /\ flow' = Undef
               /\ hpc' = "failed"
    /\ UNCHANGED <<mainVars, fixtureVars, cmpArgs, cmpResult, flowOptions, pages, flowResult,
                   thresholds, stepIdx, catIdx, log, softAsserts>>

-----------------------------------------------------------------------------
(* assertLighthouseFlowResultThresholds (src/lighthouse-helper.ts) *)

\* score * 100 in double arithmetic, for a score of two decimals held in
\* hundredths: the product is the whole number or lies one rounding step
\* below or above it (0.58 * 100 is 57.99999999999999, 0.07 * 100 is
\* 7.000000000000001)
Times100Below == {29, 57, 58}
Times100Above == {7, 14, 28, 55, 56}

\* variant: the product is rounded to the whole number
Times100_rounded(score) == [whole |-> score.v, ulps |-> 0]

Times100(score) ==
    [whole |-> score.v,
     ulps |-> IF score.v \in Times100Below THEN -1
              ELSE IF score.v \in Times100Above THEN 1
              ELSE 0]

\* actualScore >= threshold
GreaterOrEqual(actualScore, threshold) ==
    \/ actualScore.whole > threshold.v
    \/ actualScore.whole = threshold.v /\ actualScore.ulps >= 0

\* variant: every audit ref having weight 0 is enough to skip
NotApplicable_weightsOnly(categoryData) ==
    /\ "auditRefs" \in DOMAIN categoryData
    /\ \A k \in 1..Len(categoryData.auditRefs) :
            Get(categoryData.auditRefs[k], "weight") = Num(0)

\* lines 123-124: (categoryData.score ?? 0) === 0 && allAuditsWeightZero,
\* where allAuditsWeightZero is undefined without auditRefs
NotApplicable(categoryData) ==
    /\ Get(categoryData, "score") \in {Undef, Null, Num(0)}
    /\ "auditRefs" \in DOMAIN categoryData
    /\ \A k \in 1..Len(categoryData.auditRefs) :
            Get(categoryData.auditRefs[k], "weight") = Num(0)

\* step.name || 'Unnamed step'
StepName(step) == NameOr(step, "Unnamed step")

\* variant: the first failed assertion ends the function
AfterFailure_throw(position) == "returned"

\* expect.soft records a failure and lets the caller go on
AfterFailure(position) == position

\* lines 107-111, and the end of the outer loop
ValidateStep ==
    /\ hpc = "step"
    /\ IF stepIdx < Len(flowResult.steps)
       THEN /\ log' = Append(log, [kind |-> "validating", step |-> stepIdx + 1,
                                   stepName |-> StepName(flowResult.steps[stepIdx + 1])])
            /\ catIdx' = 0
            /\ hpc' = "category"
       ELSE /\ hpc' = "returned"
            /\ UNCHANGED <<log, catIdx>>
    /\ UNCHANGED <<mainVars, fixtureVars, cmpArgs, cmpResult, flowOptions, pages, flow,
                   flowResult, thresholds, stepIdx, softAsserts>>

\* lines 113-144: one iteration of the loop over Object.entries(thresholds)
CheckCategory ==
    /\ hpc = "category"
    /\ catIdx < Len(thresholds)
    /\ LET step == flowResult.steps[stepIdx + 1]
           categories == step.lhr.categories
           category == thresholds[catIdx + 1].category
           threshold == thresholds[catIdx + 1].threshold
           entry(kind) == [kind |-> kind, step |-> stepIdx + 1,
                           stepName |-> StepName(step), category |-> category]
           made(matcher, pass) == [step |-> stepIdx + 1, category |-> category,
                                   matcher |-> matcher, pass |-> pass]
       IN  IF threshold = Undef
           THEN UNCHANGED <<log, softAsserts, hpc>>
           ELSE IF category \notin DOMAIN categories
           THEN /\ log' = Append(log, entry("not found"))
                /\ UNCHANGED <<softAsserts, hpc>>
           ELSE IF NotApplicable(categories[category])
           THEN /\ log' = Append(log, entry("zero weight"))
                /\ UNCHANGED <<softAsserts, hpc>>
           ELSE IF categories[category].score = Null
           THEN /\ softAsserts' = Append(softAsserts, made("not.toBeNull", FALSE))
                /\ hpc' = AfterFailure(hpc)
                /\ UNCHANGED log
           ELSE LET actualScore == Times100(categories[category].score)
                    met == GreaterOrEqual(actualScore, threshold)
                IN  /\ log' = Append(log,
                            entry(IF met THEN "passed" ELSE "failed")
                                @@ [title |-> categories[category].title,
                                    actualScore |-> actualScore,
                                    threshold |-> threshold])
                    /\ softAsserts' = softAsserts
                            \o <<made("not.toBeNull", TRUE),
                                 made("toBeGreaterThanOrEqual", met)>>
                    /\ hpc' = IF met THEN hpc ELSE AfterFailure(hpc)
    /\ catIdx' = catIdx + 1
    /\ UNCHANGED <<mainVars, fixtureVars, cmpArgs, cmpResult, flowOptions, pages, flow,
                   flowResult, thresholds, stepIdx>>

\* the inner loop is over: the outer loop goes to the next step
NextStep ==
    /\ hpc = "category"
    /\ catIdx >= Len(thresholds)
    /\ stepIdx' = stepIdx + 1
    /\ hpc' = "step"
    /\ UNCHANGED <<mainVars, fixtureVars, cmpArgs, cmpResult, flowOptions, pages, flow,
                   flowResult, thresholds, catIdx, log, softAsserts>>

NextConnect == connectToLighthouseFlow

NextAssert == ValidateStep \/ CheckCategory \/ NextStep

-----------------------------------------------------------------------------
(* The fixtures of createLighthouseTest (src/lighthouse-helper.ts), run by a
   test worker: the worker sets up its port once, then runs its tests one
   after the other; for each test the runner sets up the fixtures the test
   uses, dependencies first, runs the body, and runs what follows each
   fixture's use() in reverse order, also when the body or a later fixture
   failed. *)

\* the ports getPort() may find free
Ports == {9222, 9223, 51234}

\* the entry of events for the test the worker is at
Event(what) == [test |-> testIdx + 1, what |-> what, port |-> workerPort]

\* the test is over: the worker takes the next one, if any
Finished == IF testIdx + 1 < Len(tests) THEN "launch" ELSE "done"

\* variant: the context fixture ends without closing the context
AfterClose_leak(open, test) == open

\* line 50: await context.close()
AfterClose(open, test) == {c \in open : c.test # test}

\* lines 35-38: the port fixture, of worker scope
SetupPort ==
    /\ wpc = "port"
    /\ \E free \in Ports : workerPort' = free
    /\ wpc' = "launch"
    /\ UNCHANGED <<mainVars, cmpArgs, cmpResult, helperVars, tests, testIdx,
                   contexts, events>>

\* lines 44-49: the context fixture up to use(); a launch that is rejected
\* fails the test before anything else is set up
LaunchContext ==
    /\ wpc = "launch"
    /\ \E launched \in BOOLEAN :
          IF launched
          THEN /\ contexts' = contexts \cup {[test |-> testIdx + 1, port |-> workerPort]}
               /\ events' = Append(events, Event("launched"))
               /\ wpc' = IF tests[testIdx + 1] = "authenticatedPage" THEN "login"
                         ELSE "body"
               /\ UNCHANGED testIdx
          ELSE /\ events' = Append(events, Event("launch failed"))
               /\ testIdx' = testIdx + 1
               /\ wpc' = Finished
               /\ UNCHANGED contexts
    /\ UNCHANGED <<mainVars, cmpArgs, cmpResult, helperVars, workerPort, tests>>

\* lines 56-57: the authenticatedPage fixture up to use(), on the page of the
\* context; a login that throws fails the test, and the body does not run
Login ==
    /\ wpc = "login"
    /\ \E loggedIn \in BOOLEAN :
          IF loggedIn
          THEN events' = Append(events, Event("login completed")) /\ wpc' = "body"
          ELSE events' = Append(events, Event("login failed")) /\ wpc' = "close"
    /\ UNCHANGED <<mainVars, cmpArgs, cmpResult, helperVars, workerPort, tests,
                   testIdx, contexts>>

\* use(page) / use(context): the runner starts the body of the test
StartBody ==
    /\ wpc = "body"
    /\ events' = Append(events, Event("body started"))
    /\ wpc' = "running"
    /\ UNCHANGED <<mainVars, cmpArgs, cmpResult, helperVars, workerPort, tests,
                   testIdx, contexts>>

\* the body ends: it passes, fails, or is ended by the test timeout
EndBody ==
    /\ wpc = "running"
    /\ \E outcome \in {"passed", "failed", "timed out"} :
          events' = Append(events, Event("body ended") @@ [outcome |-> outcome])
    /\ wpc' = "close"
    /\ UNCHANGED <<mainVars, cmpArgs, cmpResult, helperVars, workerPort, tests,
                   testIdx, contexts>>

\* line 50: what follows use(context)
CloseContext ==
    /\ wpc = "close"
    /\ contexts' = AfterClose(contexts, testIdx + 1)
    /\ events' = Append(events, Event("closed"))
    /\ testIdx' = testIdx + 1
    /\ wpc' = Finished
    /\ UNCHANGED <<mainVars, cmpArgs, cmpResult, helperVars, workerPort, tests>>

NextFixtures ==
    SetupPort \/ LaunchContext \/ Login \/ StartBody \/ EndBody \/ CloseContext

-----------------------------------------------------------------------------
(* Initial states *)

\* no test worker runs
NoFixtures ==
    /\ wpc = "idle"
    /\ workerPort = 0
    /\ tests = << >>
    /\ testIdx = 0
    /\ contexts = {}
    /\ events = << >>

\* no helper runs
NoHelper ==
    /\ hpc = "idle"
    /\ flowOptions = Undef
    /\ pages = << >>
    /\ flow = Undef
    /\ flowResult = Undef
    /\ thresholds = << >>
    /\ stepIdx = 0
    /\ catIdx = 0
    /\ log = << >>
    /\ softAsserts = << >>

\* the locals of main before it runs
InitLocals ==
    /\ beforeSteps = << >>
    /\ afterSteps = << >>
    /\ steps = << >>
    /\ i = 0
    /\ auditDiffs = << >>
    /\ categoryDiffs = << >>
    /\ outDir = ""
    /\ files = << >>
    /\ exitCode = -1
    /\ stderr = << >>
    /\ stdout = << >>

NoCompare ==
    /\ cmpArgs = Undef
    /\ cmpResult = Undef

Paths == {"before.json", "after.json"}

\* flow results of several steps over a few snapshots
MaxSteps == 2

SnapA ==
    Snapshot([lcp |-> AuditRec("lcp", Num(50), Num(Tenths(4000, 6))),
              https |-> AuditRec("https", Num(100), Undef)],
             [performance |-> CategoryRec("performance", Num(70)),
              seo |-> CategoryRec("seo", Num(95))])

SnapB ==
    Snapshot([lcp |-> AuditRec("lcp", Num(100), Num(Tenths(2500, 0))),
              https |-> AuditRec("https", Null, Undef)],
             [performance |-> CategoryRec("performance", Num(95))])
        @@ [categoryGroups |-> [metrics |-> [title |-> "Metrics"],
                                hidden |-> [title |-> ""]]]

SnapNoAudits ==
    Snapshot(Undef, [performance |-> CategoryRec("performance", Num(70))])

SnapEmpty == [audits |-> << >>, categories |-> << >>]

SmallSnapshots == {SnapA, SnapB, SnapNoAudits, SnapEmpty}

SmallContents ==
    FlowDocs(SmallSnapshots, MaxSteps) \cup SingleDocs(SmallSnapshots)
        \cup {NoFile, BadJson}

Init ==
    /\ pc = "start"
    /\ \/ /\ argv \in {<< >>, <<"before.json">>, <<"", "after.json">>}
          /\ disk \in {[p \in Paths |-> NoFile], [p \in Paths |-> [lhr |-> SnapA]]}
          /\ dirs \in {{}, {BaseDir}}
          /\ now = 1
       \/ /\ argv = <<"before.json", "after.json">>
          /\ disk \in [Paths -> SmallContents]
          /\ dirs \in {{}, {BaseDir}, {BaseDir, OutDirAt(1)}}
          /\ now \in {1, 2}
    /\ InitLocals
    /\ NoCompare
    /\ NoHelper
    /\ NoFixtures

Spec == Init /\ [][Next]_vars


\* one-step documents over snapshots that vary every optional field
StepAuditOptions ==
    [lcp |-> {AuditRec("lcp", s, Undef) : s \in {Undef, Null}}
                \cup {AuditRec("lcp", s, v) : s \in {Num(50), Num(ScoreOne)},
                                              v \in {Undef, Num(Tenths(2500, 0)),
                                                    Num(Tenths(4000, 0)),
                                                    Num(Tenths(4000, 6))}},
     https |-> {AuditRec("https", s, Undef) : s \in {Null, Num(50), Num(ScoreOne)}}]

StepCategoryOptions ==
    [performance |-> {CategoryRec("performance", s) :
                        s \in {Undef, Null, Num(0), Num(70), Num(95)}},
     seo |-> {CategoryRec("seo", Num(70))}]

StepSnapshots ==
    Snapshots(Mappings(StepAuditOptions),
              {m \in Mappings(StepCategoryOptions) : "seo" \in DOMAIN m})

InitStep ==
    /\ pc = "start"
    /\ argv = <<"before.json", "after.json">>
    /\ disk \in [Paths -> {[lhr |-> s] : s \in StepSnapshots}]
    /\ dirs = {}
    /\ now = 1
    /\ InitLocals
    /\ NoCompare
    /\ NoHelper
    /\ NoFixtures

SpecStep == InitStep /\ [][Next]_vars

\* direct calls of compareNumbers
MaxCmp == 100

CmpValues == {Num(n) : n \in (-5)..MaxCmp}

InitCompare ==
    /\ pc = "idle"
    /\ argv = << >>
    /\ disk = [p \in Paths |-> NoFile]
    /\ dirs = {}
    /\ now = 1
    /\ InitLocals
    /\ cmpArgs \in [before : CmpValues, after : CmpValues, isScore : BOOLEAN]
    /\ cmpResult = Undef
    /\ NoHelper
    /\ NoFixtures

SpecCompare == InitCompare /\ [][NextCompare]_vars

\* no run of main
NoMain ==
    /\ pc = "idle"
    /\ argv = << >>
    /\ disk = [p \in Paths |-> NoFile]
    /\ dirs = {}
    /\ now = 1
    /\ InitLocals
    /\ NoCompare

\* calls of connectToLighthouseFlow
Routes == {"", "login", "dashboard"}

Urls == {<<"blank">>, <<"app", "login">>, <<"app", "dashboard">>}

MaxPages == 2

ConnectOptions ==
    [port : Ports, route : Routes, flowName : {"checkout"}]
        \cup [port : Ports, route : Routes, flowName : {"checkout"},
              browserURL : {"http://127.0.0.1:9333"}]

InitConnect ==
    /\ NoMain
    /\ hpc = "connect"
    /\ flowOptions \in ConnectOptions
    /\ pages \in UNION {[1..n -> Urls] : n \in 1..MaxPages}
    /\ flow = Undef
    /\ flowResult = Undef
    /\ thresholds = << >>
    /\ stepIdx = 0
    /\ catIdx = 0
    /\ log = << >>
    /\ softAsserts = << >>
    /\ NoFixtures

SpecConnect == InitConnect /\ [][NextConnect]_vars

\* calls of assertLighthouseFlowResultThresholds
WeightedRefs == <<[id |-> "lcp", weight |-> Num(0)], [id |-> "https", weight |-> Num(1)]>>

ZeroWeightRefs == <<[id |-> "lcp", weight |-> Num(0)], [id |-> "https", weight |-> Num(0)]>>

\* a category of a step, with the given score and audit refs; Undef leaves
\* auditRefs out
CategoryData(id, score, auditRefs) ==
    [id |-> id, title |-> CategoryTitle[id], score |-> score]
        @@ (IF auditRefs = Undef THEN << >> ELSE [auditRefs |-> auditRefs])

AssertCategoryOptions ==
    [performance |-> {CategoryData("performance", s, r) :
                        s \in {Null, Num(0), Num(58), Num(90)},
                        r \in {Undef, << >>, ZeroWeightRefs, WeightedRefs}},
     seo |-> {CategoryData("seo", s, WeightedRefs) : s \in {Num(58), Num(90)}}]

\* the steps of the longer flow results
SmallCategories ==
    {[performance |-> CategoryData("performance", Num(58), WeightedRefs),
      seo |-> CategoryData("seo", Num(90), WeightedRefs)],
     [seo |-> CategoryData("seo", Num(58), WeightedRefs)],
     [performance |-> CategoryData("performance", Null, WeightedRefs)],
     [performance |-> CategoryData("performance", Num(0), ZeroWeightRefs),
      seo |-> CategoryData("seo", Num(90), WeightedRefs)],
     [performance |-> CategoryData("performance", Num(58), ZeroWeightRefs)]}

\* the k-th step of a flow result; the odd steps carry a name
ResultStep(k, categories) ==
    [lhr |-> [categories |-> categories]]
        @@ (IF k % 2 = 1 THEN [name |-> "Landing"] ELSE << >>)

MaxFlowSteps == 2

FlowResults ==
    {[steps |-> << >>]}
        \cup {[steps |-> <<ResultStep(1, c)>>] : c \in Mappings(AssertCategoryOptions)}
        \cup UNION {{[steps |-> [k \in 1..n |-> ResultStep(k, f[k])]] :
                        f \in [1..n -> SmallCategories]}
                    : n \in 2..MaxFlowSteps}

ThresholdValues == {Undef, Num(58), Num(90)}

\* Object.entries of the thresholds objects, in either insertion order
ThresholdEntries ==
    {<< >>}
        \cup {<<[category |-> c, threshold |-> t]>> :
                c \in {"performance", "seo"}, t \in ThresholdValues}
        \cup {<<[category |-> c[1], threshold |-> t1],
                [category |-> c[2], threshold |-> t2]>> :
                c \in {<<"performance", "seo">>, <<"seo", "performance">>},
                t1 \in ThresholdValues, t2 \in ThresholdValues}

InitAssert ==
    /\ NoMain
    /\ hpc = "step"
    /\ flowOptions = Undef
    /\ pages = << >>
    /\ flow = Undef
    /\ flowResult \in FlowResults
    /\ thresholds \in ThresholdEntries
    /\ stepIdx = 0
    /\ catIdx = 0
    /\ log = << >>
    /\ softAsserts = << >>
    /\ NoFixtures

SpecAssert == InitAssert /\ [][NextAssert]_vars

\* the function is synchronous code: a loop that can go on does go on
SpecAssertFair == SpecAssert /\ WF_vars(NextAssert)

\* a worker and the tests it is given
MaxTests == 3

TestKinds == {"authenticatedPage", "context"}

InitFixtures ==
    /\ NoMain
    /\ NoHelper
    /\ wpc = "port"
    /\ workerPort = 0
    /\ tests \in UNION {[1..n -> TestKinds] : n \in 1..MaxTests}
    /\ testIdx = 0
    /\ contexts = {}
    /\ events = << >>

SpecFixtures == InitFixtures /\ [][NextFixtures]_vars

\* awaited calls settle, and a body that does not end is ended by the test
\* timeout
SpecFixturesFair == SpecFixtures /\ WF_vars(NextFixtures)


-----------------------------------------------------------------------------
(* Vocabulary of the properties *)

\* the snapshots of the n-th aligned pair, once main holds the documents
PairBefore(n) == beforeSteps[n].lhr
PairAfter(n) == afterSteps[n].lhr

\* id is a key of the snapshot's mapping and its score is present and non-null
HasScore(lhr, field, id) ==
    /\ field \in DOMAIN lhr
    /\ id \in DOMAIN lhr[field]
    /\ "score" \in DOMAIN lhr[field][id]
    /\ lhr[field][id].score # Null

ScoreOf(lhr, field, id) == lhr[field][id].score.v

\* higher is better
HigherIsBetter(before, after) ==
    IF after > before THEN "better"
    ELSE IF after < before THEN "worse"
    ELSE "equal"

\* the audit is a problem of the snapshot: scored, and below the perfect score
ProblemAudit(lhr, id) == HasScore(lhr, "audits", id) /\ ScoreOf(lhr, "audits", id) < ScoreOne

\* the ids of the audit items of a step page, and of its category sections
ItemIds(page) ==
    UNION {UNION {{page.body[s].groups[g].items[t].id :
                        t \in 1..Len(page.body[s].groups[g].items)}
                  : g \in 1..Len(page.body[s].groups)}
           : s \in 1..Len(page.body)}

SectionIds(page) == {page.body[s].catId : s \in 1..Len(page.body)}

CardIds(page) == {page.summary[k].catId : k \in 1..Len(page.summary)}

\* the number of steps of a document, and its n-th snapshot
DocLen(doc) == IF "steps" \in DOMAIN doc THEN Len(doc.steps) ELSE 1

DocSnapshot(doc, n) ==
    IF "steps" \in DOMAIN doc THEN doc.steps[n].lhr
    ELSE IF "lhr" \in DOMAIN doc THEN doc.lhr
    ELSE doc

-----------------------------------------------------------------------------
(* Properties *)

\* C1: for every audit of the after snapshot whose before and after scores
\* are both non-null, the audit's score delta has the trend of a score:
\* better when the after score is higher, worse when lower, equal when the same.
C1_AuditScoreHigherIsBetter ==
    i >= 1 =>
        \A id \in DOMAIN PairAfter(i).audits :
            (HasScore(PairBefore(i), "audits", id) /\ HasScore(PairAfter(i), "audits", id))
                => /\ id \in DOMAIN auditDiffs
                   /\ auditDiffs[id].trend =
                        HigherIsBetter(ScoreOf(PairBefore(i), "audits", id),
                                       ScoreOf(PairAfter(i), "audits", id))

\* C2: the trend of compareNumbers is decided by after - before and the mode:
\* equal at 0; in score mode better above 0 and worse below; in numeric-metric
\* mode better below 0 and worse above.
C2_TrendByDiffAndMode ==
    cmpResult # Undef =>
        LET d == cmpArgs.after.v - cmpArgs.before.v
        IN  cmpResult.trend =
                IF d = 0 THEN "equal"
                ELSE IF cmpArgs.isScore
                     THEN (IF d > 0 THEN "better" ELSE "worse")
                     ELSE (IF d < 0 THEN "better" ELSE "worse")

C2_Witness ==
    /\ cmpResult # Undef
    /\ ~cmpArgs.isScore
    /\ cmpArgs.after.v < cmpArgs.before.v
    /\ cmpResult.trend = "better"


\* reading of a toFixed(1) string: digits, a point, one digit, "-" in front
\* of a value below zero
IsDigit(c) == c \in Range(Digits)

DigitValue(c) == CHOOSE d \in 0..9 : Digits[d + 1] = c

RECURSIVE DigitsValue(_)
DigitsValue(chars) ==
    IF chars = << >> THEN 0
    ELSE 10 * DigitsValue(SubSeq(chars, 1, Len(chars) - 1)) + DigitValue(chars[Len(chars)])

Unsigned(chars) == IF chars # << >> /\ Head(chars) = "-" THEN Tail(chars) ELSE chars

IsFixed1(chars) ==
    LET body == Unsigned(chars)
    IN  /\ Len(body) >= 3
        /\ body[Len(body) - 1] = "."
        /\ \A k \in (1..Len(body)) \ {Len(body) - 1} : IsDigit(body[k])

\* the value of a toFixed(1) string, in tenths
Fixed1Tenths(chars) ==
    LET body == Unsigned(chars)
        tenths == 10 * DigitsValue(SubSeq(body, 1, Len(body) - 2))
                    + DigitValue(body[Len(body)])
    IN  IF body = chars THEN tenths ELSE -tenths

\* C3: the percent of a delta is (after - before) / before * 100 rounded to
\* one decimal when before is not 0, and exactly "0" when before is 0; scores
\* 0.70 then 0.95 give "35.7" and the trend better.
C3_PercentRoundedOrZero ==
    cmpResult # Undef =>
        LET b == cmpArgs.before.v
            d == cmpArgs.after.v - cmpArgs.before.v
        IN  /\ b = 0 => cmpResult.percent = <<"0">>
            /\ b # 0 =>
                /\ IsFixed1(cmpResult.percent)
                /\ 2 * Abs(Fixed1Tenths(cmpResult.percent) * b - 1000 * d) <= Abs(b)
            /\ (b = 70 /\ cmpArgs.after.v = 95 /\ cmpArgs.isScore) =>
                /\ cmpResult.percent = <<"3", "5", ".", "7">>
                /\ cmpResult.trend = "better"

C3_Witness ==
    /\ cmpResult # Undef
    /\ cmpArgs = [before |-> Num(70), after |-> Num(95), isScore |-> TRUE]
    /\ cmpResult.percent = <<"3", "5", ".", "7">>

\* C4: a delta entry exists for an audit id (a category id) exactly when the
\* id is a key of the after snapshot's mapping and both its before score and
\* its after score are present and non-null.
C4_DeltaExactlyWhenBothScored ==
    i >= 1 =>
        /\ DOMAIN auditDiffs =
            {id \in DOMAIN PairAfter(i).audits :
                HasScore(PairBefore(i), "audits", id) /\ HasScore(PairAfter(i), "audits", id)}
        /\ DOMAIN categoryDiffs =
            {id \in DOMAIN PairAfter(i).categories :
                /\ HasScore(PairBefore(i), "categories", id)
                /\ HasScore(PairAfter(i), "categories", id)}

\* every after snapshot has its audits and categories mappings
AfterTraversable ==
    \A k \in 1..Len(afterSteps) : {"audits", "categories"} \subseteq DOMAIN afterSteps[k].lhr

\* C5: whatever nested field the before snapshot lacks, the delta computation
\* does not raise: the run that created its output directory completes and
\* does not exit with code 1.
C5_MalformedBeforeNeverRaises ==
    (outDir # "" /\ AfterTraversable) => exitCode # 1

\* C6: an audit whose after score is null or exactly 1 has no item in any
\* group of any category of the step page.
C6_NoItemForNullOrPerfect ==
    \A n \in 1..i :
        \A id \in DOMAIN PairAfter(n).audits :
            Get(PairAfter(n).audits[id], "score") \in {Null, Num(ScoreOne)}
                => id \notin ItemIds(files[StepFile(n)])

C6_Witness ==
    /\ i >= 1
    /\ ItemIds(files[StepFile(1)]) # {}
    /\ \E id \in DOMAIN PairAfter(1).audits :
          /\ Get(PairAfter(1).audits[id], "score") = Num(ScoreOne)
          /\ id \in DOMAIN PairBefore(1).audits
    /\ "performance" \in DOMAIN PairAfter(1).categories

\* C7: a category of the after snapshot has a body section exactly when one
\* of its audit refs points to an after audit with a non-null score below 1,
\* and it has its card in the summary strip either way.
C7_SectionIffProblemAudit ==
    \A n \in 1..i :
        \A c \in DOMAIN PairAfter(n).categories :
            LET refs == PairAfter(n).categories[c].auditRefs
            IN  /\ c \in SectionIds(files[StepFile(n)])
                    <=> \E r \in 1..Len(refs) : ProblemAudit(PairAfter(n), refs[r].id)
                /\ c \in CardIds(files[StepFile(n)])

C7_Witness ==
    /\ i >= 1
    /\ "performance" \in SectionIds(files[StepFile(1)])
    /\ "seo" \notin SectionIds(files[StepFile(1)])
    /\ "seo" \in CardIds(files[StepFile(1)])

\* C8: a problem audit of the after snapshot that has no counterpart in the
\* before snapshot is an item of its group on the step page, without a delta
\* annotation.
C8_ProblemWithoutBeforeIsRendered ==
    \A n \in 1..i :
        \A c \in DOMAIN PairAfter(n).categories :
            LET refs == PairAfter(n).categories[c].auditRefs
                page == files[StepFile(n)]
            IN  \A r \in 1..Len(refs) :
                    (/\ ProblemAudit(PairAfter(n), refs[r].id)
                     /\ "audits" \in DOMAIN PairBefore(n)
                     /\ refs[r].id \notin DOMAIN PairBefore(n).audits)
                        => \E s \in 1..Len(page.body) :
                            /\ page.body[s].catId = c
                            /\ \E g \in 1..Len(page.body[s].groups) :
                                LET group == page.body[s].groups[g]
                                IN  /\ group.groupId = RefGroup(refs[r])
                                    /\ \E t \in 1..Len(group.items) :
                                        /\ group.items[t].id = refs[r].id
                                        /\ group.items[t].diffValue.kind = "none"

\* C9: on the index page the header of every category of the union of the
\* steps' category deltas is the title carried by the first step that has a
\* delta for the category.
C9_HeaderFromFirstDefiningStep ==
    "index.html" \in DOMAIN files =>
        LET header == files["index.html"].header
        IN  /\ {header[c].catId : c \in 1..Len(header)}
                = UNION {DOMAIN steps[k].categoryDiffs : k \in 1..Len(steps)}
            /\ \A c \in 1..Len(header) :
                LET defining == {k \in 1..Len(steps) :
                                    header[c].catId \in DOMAIN steps[k].categoryDiffs}
                    first == CHOOSE k \in defining : \A j \in defining : k <= j
                IN  header[c].text = steps[first].categoryDiffs[header[c].catId].title

\* the aligned pairs of the two input documents all have their mappings
AlignedWellFormed ==
    /\ Len(argv) = 2
    /\ Readable(disk[argv[1]])
    /\ Readable(disk[argv[2]])
    /\ \A n \in 1..Min(DocLen(disk[argv[1]]), DocLen(disk[argv[2]])) :
          /\ {"audits", "categories"} \subseteq DOMAIN DocSnapshot(disk[argv[1]], n)
          /\ {"audits", "categories"} \subseteq DOMAIN DocSnapshot(disk[argv[2]], n)

\* C10: a run over documents of m and n steps pairs step k of before with
\* step k of after for k = 1..min(m, n), writes exactly step-1.html ..
\* step-min(m,n).html and index.html, the index with one row per pair, and
\* raises no error because m and n differ.
C10_PositionalTruncation ==
    /\ pc \in {"open", "confirm", "done"} =>
        LET before == disk[argv[1]]
            after == disk[argv[2]]
            aligned == Min(DocLen(before), DocLen(after))
        IN  /\ DOMAIN files = {StepFile(k) : k \in 1..aligned} \cup {"index.html"}
            /\ Cardinality(DOMAIN files) = aligned + 1
            /\ Len(files["index.html"].rows) = aligned
            /\ \A k \in 1..aligned :
                /\ files[StepFile(k)].title[2] = k
                /\ files["index.html"].rows[k].number = k
                /\ CardIds(files[StepFile(k)]) = DOMAIN DocSnapshot(after, k).categories
                /\ \A c \in DOMAIN steps[k].categoryDiffs :
                    /\ steps[k].categoryDiffs[c].before
                        = DocSnapshot(before, k).categories[c].score
                    /\ steps[k].categoryDiffs[c].after
                        = DocSnapshot(after, k).categories[c].score
    /\ (outDir # "" /\ AlignedWellFormed) => exitCode # 1

C10_Witness ==
    /\ pc = "done"
    /\ exitCode = 0
    /\ DocLen(disk[argv[1]]) > DocLen(disk[argv[2]])
    /\ DocLen(disk[argv[2]]) >= 1
    /\ Cardinality(DOMAIN files) = DocLen(disk[argv[2]]) + 1

\* the audit items of a step page
Items(page) ==
    UNION {UNION {{page.body[s].groups[g].items[t] :
                        t \in 1..Len(page.body[s].groups[g].items)}
                  : g \in 1..Len(page.body[s].groups)}
           : s \in 1..Len(page.body)}

HasNumeric(audit) == IsNum(Get(audit, "numericValue"))

\* lower is better
LowerIsBetter(before, after) ==
    IF after < before THEN "better"
    ELSE IF after > before THEN "worse"
    ELSE "equal"

\* C18: on the step page every audit item whose before and after audits both
\* carry a raw numeric value shows the difference after - before rounded to
\* an integer, with a plus sign when the difference is positive, with the
\* unit of the after audit ("millisecond" shown as "ms"), and with the trend
\* of a lower-is-better quantity; an item whose audits do not both carry one
\* but whose scores are both given shows the percent of the score delta, and
\* nothing when the scores are equal.
C18_NumericDiffOrPercent ==
    i >= 1 =>
        \A item \in Items(files[StepFile(i)]) :
            LET b == PairBefore(i).audits[item.id]
                a == PairAfter(i).audits[item.id]
                d == a.numericValue.v - b.numericValue.v
                shown == item.diffValue
            IN  IF HasNumeric(b) /\ HasNumeric(a)
                THEN /\ shown.kind = "number"
                     /\ Abs(Tenths(shown.value, 0) - d) <= 5
                     /\ shown.sign = "+" <=> d > 0
                     /\ shown.sign \in {"+", ""}
                     /\ shown.unit = IF a.numericUnit = "millisecond" THEN "ms"
                                     ELSE a.numericUnit
                     /\ item.icon = trendIcon(LowerIsBetter(b.numericValue.v,
                                                            a.numericValue.v))
                     /\ item.bg = trendBg(LowerIsBetter(b.numericValue.v,
                                                        a.numericValue.v))
                ELSE (HasScore(PairBefore(i), "audits", item.id)
                        /\ HasScore(PairAfter(i), "audits", item.id))
                     => /\ shown.kind = "percent"
                        /\ item.id \in DOMAIN auditDiffs
                        /\ shown.text =
                            IF auditDiffs[item.id].trend = "equal" THEN << >>
                            ELSE auditDiffs[item.id].percent \o <<"%">>
                        /\ auditDiffs[item.id].trend = "equal"
                            <=> ScoreOf(PairBefore(i), "audits", item.id)
                                    = ScoreOf(PairAfter(i), "audits", item.id)

C18_Witness ==
    /\ i >= 1
    /\ \E item \in Items(files[StepFile(1)]) :
          /\ Get(PairBefore(1).audits[item.id], "numericValue") = Num(Tenths(4000, 0))
          /\ Get(PairAfter(1).audits[item.id], "numericValue") = Num(Tenths(2500, 0))
          /\ item.diffValue.sign = ""
          /\ item.diffValue.value = -1500
          /\ item.diffValue.unit = "ms"
          /\ item.icon = trendIcon("better")
    /\ \E item \in Items(files[StepFile(1)]) :
          /\ item.diffValue.kind = "percent"
          /\ item.diffValue.text = << >>

\* C11: the output directory of a run is a directory that did not exist when
\* the run made it, a run has one output directory only, and a page is
\* written only once the run has made its output directory; a run whose
\* timestamp names a directory that exists already writes no page.
C11_PagesOnlyIntoOwnDirectory ==
    [][/\ outDir' # outDir =>
            /\ outDir = ""
            /\ outDir' \notin dirs
            /\ outDir' \in dirs'
       /\ files' # files =>
            /\ outDir # ""
            /\ outDir' = outDir
            /\ outDir \in dirs]_vars

\* the timestamp of the run names a directory left by an earlier run
C11_Witness ==
    /\ pc = "exited"
    /\ beforeSteps # << >>
    /\ OutDirAt(now) \in dirs
    /\ outDir = ""
    /\ files = << >>
    /\ exitCode = 1

\* C12: a run that is given fewer than two path arguments ends at once with
\* the usage message alone on the error stream and exit code 1; no step of
\* it creates a directory or writes a file, and it binds no document.
C12_UsageErrorBeforeAnyEffect ==
    /\ [](Len(argv) < 2 /\ pc # "start" =>
            /\ pc = "exited"
            /\ exitCode = 1
            /\ stderr = <<"usage">>
            /\ stdout = << >>
            /\ beforeSteps = << >>
            /\ afterSteps = << >>
            /\ outDir = ""
            /\ files = << >>)
    /\ [][Len(argv) < 2 => dirs' = dirs /\ files' = files]_vars

\* the after path is missing while the before path names a readable file
C12_Witness ==
    /\ argv = <<"before.json">>
    /\ Readable(disk["before.json"])
    /\ pc = "exited"
    /\ stderr = <<"usage">>
    /\ exitCode = 1
    /\ dirs = {}

\* the run has both path arguments and one of the two files is missing or is
\* not valid JSON
InputUnreadable ==
    /\ ~ArgsMissing(argv)
    /\ \E k \in 1..2 : ReadFile(argv, k, disk) \in {NoFile, BadJson}

\* C13: a run one of whose input files is missing or is not valid JSON never
\* prints anything on the output stream, never gets past reading the files,
\* and once it has ended it has reported an error on the error stream and
\* its exit code is not zero.
C13_UnreadableInputIsFatal ==
    InputUnreadable =>
        /\ stdout = << >>
        /\ pc \in {"start", "exited"}
        /\ pc = "exited" =>
            /\ exitCode # 0
            /\ exitCode # -1
            /\ "error" \in Range(stderr)

\* the before file is a flow result and the after file is not valid JSON
C13_Witness ==
    /\ pc = "exited"
    /\ ~ArgsMissing(argv)
    /\ Readable(ReadFile(argv, 1, disk))
    /\ ReadFile(argv, 2, disk) = BadJson
    /\ stderr = <<"error">>
    /\ exitCode = 1

\* the confirmation of line 550
Confirmation == "Report generated at: " \o outDir \o "/index.html"

\* C14: the step that starts the viewer only moves the run on to the
\* confirmation, adding at most a warning to the error stream; once the
\* warning is logged the index page and every step page are there and stay
\* as they are, the exit code never becomes non-zero, and the run ends with
\* the confirmation, naming the index page of the output directory, printed
\* and exit code 0.
C14_OpenFailureIsOnlyAWarning ==
    /\ [][pc = "open" =>
            /\ pc' = "confirm"
            /\ stderr' \in {stderr, Append(stderr, "warning")}
            /\ files' = files
            /\ exitCode' = exitCode
            /\ stdout' = stdout]_vars
    /\ []("warning" \in Range(stderr) =>
            /\ pc \in {"confirm", "done"}
            /\ "index.html" \in DOMAIN files
            /\ \A k \in 1..i : StepFile(k) \in DOMAIN files
            /\ exitCode \in {-1, 0}
            /\ pc = "done" => stdout = <<Confirmation>> /\ exitCode = 0)
    /\ []["warning" \in Range(stderr) => files' = files]_vars

\* the viewer failed to start on a report of at least one step
C14_Witness ==
    /\ pc = "done"
    /\ stderr = <<"warning">>
    /\ i >= 1
    /\ DOMAIN files = {"index.html"} \cup {StepFile(k) : k \in 1..i}
    /\ stdout = <<Confirmation>>
    /\ exitCode = 0

\* the targets of the hyperlinks of the k-th row of the index page: the step
\* link of the row and the link of each category cell that shows a delta
RowLinks(page, k) ==
    {page.rows[k].href}
        \cup {page.rows[k].cells[c].href :
                c \in {c \in 1..Len(page.rows[k].cells) :
                            page.rows[k].cells[c].kind = "delta"}}

\* C20: once the index page is written, every hyperlink of its k-th row
\* targets step-k.html, which is a file of the run, and the rows are those of
\* the steps 1..min(len(beforeSteps), len(afterSteps)).
C20_IndexLinksTargetWrittenStepPages ==
    "index.html" \in DOMAIN files =>
        LET page == files["index.html"]
        IN  /\ Len(page.rows) = Min(Len(beforeSteps), Len(afterSteps))
            /\ \A k \in 1..Len(page.rows) :
                \A link \in RowLinks(page, k) :
                    /\ link = StepFile(k)
                    /\ link \in DOMAIN files

-----------------------------------------------------------------------------
(* Properties of assertLighthouseFlowResultThresholds *)

\* the (step, entry) pairs the loops have been through
Handled ==
    {p \in (1..Len(flowResult.steps)) \X (1..Len(thresholds)) :
        \/ p[1] <= stepIdx
        \/ hpc = "category" /\ p[1] = stepIdx + 1 /\ p[2] <= catIdx}

\* those with a threshold
HandledWithThreshold == {p \in Handled : thresholds[p[2]].threshold # Undef}

CategoriesOf(s) == flowResult.steps[s].lhr.categories

CategoryOf(k) == thresholds[k].category

\* the soft assertions made for the pair, and the messages logged for it
AssertsFor(s, c) ==
    {j \in 1..Len(softAsserts) : softAsserts[j].step = s /\ softAsserts[j].category = c}

LogsFor(s, c) ==
    {j \in 1..Len(log) :
        log[j].kind # "validating" /\ log[j].step = s /\ log[j].category = c}

\* the threshold assertion was made for the pair
ThresholdAsserted(s, c) ==
    \E j \in AssertsFor(s, c) : softAsserts[j].matcher = "toBeGreaterThanOrEqual"

\* the pair was skipped with a warning and without any assertion
SkippedWithWarning(s, c) ==
    /\ AssertsFor(s, c) = {}
    /\ \E j \in LogsFor(s, c) : log[j].kind \in {"not found", "zero weight"}
    /\ \A j \in LogsFor(s, c) : log[j].kind \in {"not found", "zero weight"}

\* every audit ref of the category has weight 0
EveryRefWeightZero(categoryData) ==
    "auditRefs" \in DOMAIN categoryData =>
        \A r \in 1..Len(categoryData.auditRefs) :
            categoryData.auditRefs[r].weight = Num(0)

\* C15: for every step and every category with a threshold, the threshold
\* assertion is skipped when the category is absent from the step or when
\* every audit ref of the category has weight 0, and is made otherwise.
C15_SkippedIffAbsentOrZeroWeight ==
    \A p \in HandledWithThreshold :
        LET s == p[1]
            c == CategoryOf(p[2])
        IN  IF c \notin DOMAIN CategoriesOf(s) \/ EveryRefWeightZero(CategoriesOf(s)[c])
            THEN SkippedWithWarning(s, c)
            ELSE ThresholdAsserted(s, c)

\* C15, amended: the pair is skipped with a warning when the category is
\* absent from the step, or when its score is 0 or null and it has a list of
\* audit refs whose every entry has weight 0; otherwise the score is asserted
\* to be non-null, and the threshold assertion is made exactly when the score
\* is not null.
C15_SkippedIffAbsentOrUnscoredZeroWeight ==
    \A p \in HandledWithThreshold :
        LET s == p[1]
            c == CategoryOf(p[2])
        IN  IF \/ c \notin DOMAIN CategoriesOf(s)
               \/ /\ CategoriesOf(s)[c].score \in {Null, Num(0)}
                  /\ "auditRefs" \in DOMAIN CategoriesOf(s)[c]
                  /\ EveryRefWeightZero(CategoriesOf(s)[c])
            THEN SkippedWithWarning(s, c)
            ELSE /\ \E j \in AssertsFor(s, c) : softAsserts[j].matcher = "not.toBeNull"
                 /\ ThresholdAsserted(s, c) <=> CategoriesOf(s)[c].score # Null

\* a run that skipped an absent category and an unscored zero-weight one,
\* and asserted a scored category whose audit refs all have weight 0
C15_Witness ==
    /\ hpc = "returned"
    /\ \E j \in 1..Len(log) : log[j].kind = "not found"
    /\ \E j \in 1..Len(log) : log[j].kind = "zero weight"
    /\ \E p \in HandledWithThreshold :
          /\ CategoryOf(p[2]) \in DOMAIN CategoriesOf(p[1])
          /\ Get(CategoriesOf(p[1])[CategoryOf(p[2])], "auditRefs") = ZeroWeightRefs
          /\ ThresholdAsserted(p[1], CategoryOf(p[2]))

\* the threshold given for the category
ThresholdOf(c) ==
    thresholds[CHOOSE k \in 1..Len(thresholds) : thresholds[k].category = c].threshold

\* the failures recorded
Failures == {j \in 1..Len(softAsserts) : ~softAsserts[j].pass}

\* C16: a failure is recorded only for a (step, category) pair whose
\* category exists in that step with a score that, times 100, is below the
\* threshold given for the category.
C16_FailureOnlyBelowThreshold ==
    \A j \in Failures :
        LET s == softAsserts[j].step
            c == softAsserts[j].category
        IN  /\ c \in DOMAIN CategoriesOf(s)
            /\ CategoriesOf(s)[c].score # Null
            /\ CategoriesOf(s)[c].score.v < ThresholdOf(c).v

\* the position of a category among the entries of thresholds
PosOf(c) == CHOOSE k \in 1..Len(thresholds) : thresholds[k].category = c

\* where in the walk an entry of the log or of softAsserts was produced: the
\* step, and the position of the category (0 for the line that opens a step)
WalkPos(e) ==
    <<e.step, IF "category" \in DOMAIN e THEN PosOf(e.category) ELSE 0>>

NotAfter(p, q) == p[1] < q[1] \/ (p[1] = q[1] /\ p[2] <= q[2])

InWalkOrder(seq) ==
    \A a, b \in 1..Len(seq) : a < b => NotAfter(WalkPos(seq[a]), WalkPos(seq[b]))

\* every pair the loops have been through left its trace: a message, or an
\* assertion made
HandledAllChecked ==
    /\ \A s \in 1..Len(flowResult.steps) :
            (s <= stepIdx \/ (hpc = "category" /\ s = stepIdx + 1))
                => \E j \in 1..Len(log) : log[j].kind = "validating" /\ log[j].step = s
    /\ \A p \in HandledWithThreshold :
            LogsFor(p[1], CategoryOf(p[2])) # {} \/ AssertsFor(p[1], CategoryOf(p[2])) # {}

\* C17: the messages and the assertions are produced in the order of the
\* steps and, within a step, of the entries of thresholds; every pair the
\* walk has passed was checked; and every call returns having walked all the
\* steps, whatever assertions failed on the way.
C17_EveryPairCheckedInOrder ==
    /\ [](InWalkOrder(log) /\ InWalkOrder(softAsserts) /\ HandledAllChecked)
    /\ [](hpc = "returned" => stepIdx = Len(flowResult.steps))
    /\ <>(hpc = "returned" /\ stepIdx = Len(flowResult.steps))

\* the first assertion of the first step failed and the pairs after it, of
\* the same step and of the next, were checked
C17_Witness ==
    /\ hpc = "returned"
    /\ Len(flowResult.steps) = 2
    /\ Len(thresholds) = 2
    /\ \E j \in Failures : WalkPos(softAsserts[j]) = <<1, 1>>
    /\ \E j \in 1..Len(log) : log[j].kind = "passed" /\ WalkPos(log[j]) = <<1, 2>>
    /\ \E j \in 1..Len(softAsserts) : softAsserts[j].step = 2

-----------------------------------------------------------------------------
(* Properties of connectToLighthouseFlow *)

\* C19: the browser is connected to at http://127.0.0.1:<port>, or at the
\* caller's browserURL when the options carry one.
C19_LoopbackAddressOrCallerURL ==
    hpc = "connected" =>
        flow.browserURL =
            IF "browserURL" \in DOMAIN flowOptions THEN flowOptions.browserURL
            ELSE "http://127.0.0.1:" \o ToString(flowOptions.port)

-----------------------------------------------------------------------------
(* Further properties of the step page *)

\* the group sections of a step page
GroupSections(page) ==
    UNION {{page.body[s].groups[g] : g \in 1..Len(page.body[s].groups)}
           : s \in 1..Len(page.body)}

\* C21: on the step page the count of every group heading is the number of
\* audit items under the heading, every group section has an item, and every
\* category section has a group section.
C21_GroupCountIsItemCount ==
    i >= 1 =>
        LET page == files[StepFile(i)]
        IN  /\ \A group \in GroupSections(page) :
                /\ group.count = Len(group.items)
                /\ Len(group.items) >= 1
            /\ \A s \in 1..Len(page.body) : Len(page.body[s].groups) >= 1

-----------------------------------------------------------------------------
(* Properties of the fixtures of createLighthouseTest *)

\* what happened in the k-th test, in order
RECURSIVE WhatOf(_, _)
WhatOf(seq, k) ==
    IF seq = << >> THEN << >>
    ELSE (IF Head(seq).test = k THEN <<Head(seq).what>> ELSE << >>)
            \o WhatOf(Tail(seq), k)

IsPrefix(a, b) == Len(a) <= Len(b) /\ \A j \in 1..Len(a) : a[j] = b[j]

\* the courses a test that uses authenticatedPage may take
AuthenticatedCourses ==
    {<<"launched", "login completed", "body started", "body ended", "closed">>,
     <<"launched", "login failed", "closed">>,
     <<"launch failed">>}

\* the tests of the worker that use authenticatedPage
AuthenticatedTests == {k \in 1..Len(tests) : tests[k] = "authenticatedPage"}

\* C22: in every test that uses authenticatedPage the events are, in this
\* order, the context launched on the worker's port, the login completed,
\* the body started and ended, the context closed (the body is left out when
\* the login fails, everything when the launch fails); the events of a test
\* all come before those of the next; at most one context is open at any
\* time, on the worker's port; and the worker ends with every context closed.
C22_LaunchLoginBodyClose ==
    /\ [](/\ \A k \in AuthenticatedTests :
                \E course \in AuthenticatedCourses : IsPrefix(WhatOf(events, k), course)
          /\ \A a, b \in 1..Len(events) : a < b => events[a].test <= events[b].test
          /\ \A j \in 1..Len(events) :
                events[j].what = "launched" => events[j].port = workerPort
          /\ Cardinality(contexts) <= 1
          /\ \A c \in contexts : c.port = workerPort /\ c.test = testIdx + 1)
    /\ [](wpc = "done" =>
            /\ contexts = {}
            /\ \A k \in AuthenticatedTests : WhatOf(events, k) \in AuthenticatedCourses)
    /\ <>(wpc = "done")

\* two tests that use authenticatedPage ran one after the other on the port
\* of the worker, the first with a failing body
C22_Witness ==
    /\ wpc = "done"
    /\ Len(tests) >= 2
    /\ {1, 2} \subseteq AuthenticatedTests
    /\ WhatOf(events, 1) = <<"launched", "login completed", "body started",
                             "body ended", "closed">>
    /\ WhatOf(events, 2) = WhatOf(events, 1)
    /\ \E j \in 1..Len(events) :
          /\ events[j].test = 1
          /\ events[j].what = "body ended"
          /\ events[j].outcome = "failed"

=============================================================================
